---- MODULE Spec2Model ----
(***************************************************************************)
(* GlueLinks API: the links endpoint (header validation, cache lookup,     *)
(* builder pipeline, cache write), the readiness and health probes, the    *)
(* category builders and the name resolver of app/k8s_client.py.           *)
(*                                                                         *)
(* Text is a sequence of one-character strings, so that split, startswith, *)
(* quote and the service-name pattern are computed and not assumed.  A     *)
(* literal of the source that is never taken apart is kept as one element. *)
(***************************************************************************)
EXTENDS Integers, Sequences, FiniteSets, TLC

VARIABLES
    use_mock_data,  \* settings.use_mock_data, fixed at process start
    cache,          \* the Valkey store: set of [key, value, expires]
    clock,          \* seconds since process start
    req,            \* per request: position in its handler, inputs, calls made, response
    running,        \* the request the event loop is executing, or None
    svc_in,         \* arguments of a direct call of a K8sClient method
    svc_out,        \* its result, or None before the call
    b_in,           \* arguments of a direct call of the category builders
    b_out           \* what they produce, or None before the call

vars == <<use_mock_data, cache, clock, req, running, svc_in, svc_out, b_in, b_out>>

----------------------------------------------------------------------------
(* Text helpers *)

Digits == {"0", "1", "2", "3", "4", "5", "6", "7", "8", "9"}
HexLetters == {"a", "b", "c", "d", "e", "f"}
LowerLetters == {"a", "b", "c", "d", "e", "f", "g", "h", "i", "j", "k", "l", "m",
                 "n", "o", "p", "q", "r", "s", "t", "u", "v", "w", "x", "y", "z"}

SeqsUpTo(S, n) == UNION {[1..k -> S] : k \in 0..n}

Drop(s, k) == SubSeq(s, k + 1, Len(s))
Take(s, k) == SubSeq(s, 1, k)

AllIn(s, S) == \A i \in 1..Len(s) : s[i] \in S

\* str.startswith
StartsWith(s, p) == Len(p) <= Len(s) /\ Take(s, Len(p)) = p

\* index of the first occurrence of c in s, 0 when absent
IndexOf(s, c) ==
    IF \E i \in 1..Len(s) : s[i] = c
    THEN CHOOSE i \in 1..Len(s) : s[i] = c /\ \A j \in 1..(i - 1) : s[j] # c
    ELSE 0

----------------------------------------------------------------------------
(* app/k8s_client.py: SERVICE_NAME_REGEX and extract_service_name *)

\* -[0-9a-f]{9,}(-[a-z0-9]{4,})?
SuffixReplicaSet(x) ==
    /\ Len(x) >= 1
    /\ x[1] = "-"
    /\ LET body == Drop(x, 1)
           d == IndexOf(body, "-")
           hex == IF d = 0 THEN body ELSE Take(body, d - 1)
           pod == IF d = 0 THEN <<>> ELSE Drop(body, d)
       IN /\ Len(hex) >= 9
          /\ AllIn(hex, Digits \cup HexLetters)
          /\ d # 0 => (Len(pod) >= 4 /\ AllIn(pod, Digits \cup LowerLetters))

\* -[0-9]+
SuffixNumeric(x) ==
    /\ Len(x) >= 2
    /\ x[1] = "-"
    /\ AllIn(Drop(x, 1), Digits)

\* -[a-z0-9]{4,6}
SuffixShortHash(x) ==
    /\ Len(x) >= 5
    /\ Len(x) <= 7
    /\ x[1] = "-"
    /\ AllIn(Drop(x, 1), Digits \cup LowerLetters)

\* ( ... | ... | ... )?$  : the optional group, then the end of the text,
\* which "$" also accepts just before one final newline
SuffixToEnd(x) ==
    LET opt(y) == y = <<>> \/ SuffixReplicaSet(y) \/ SuffixNumeric(y) \/ SuffixShortHash(y)
    IN \/ opt(x)
       \/ Len(x) >= 1 /\ x[Len(x)] = "\n" /\ opt(Take(x, Len(x) - 1))

\* ^(?P<service_prefix>.+?) : the prefix lengths the pattern can match with
PrefixLengths(s) ==
    {k \in 1..Len(s) : AllIn(Take(s, k), {c \in {s[i] : i \in 1..Len(s)} : c # "\n"})
                       /\ SuffixToEnd(Drop(s, k))}

\* the lazy quantifier takes the shortest prefix that lets the rest match
ShortestPrefixLength(s) ==
    CHOOSE k \in PrefixLengths(s) : \A j \in PrefixLengths(s) : k <= j

SERVICE_NAME_REGEX(s) ==
    IF PrefixLengths(s) = {}
    THEN [matched |-> FALSE, service_prefix |-> <<>>]
    ELSE [matched |-> TRUE, service_prefix |-> Take(s, ShortestPrefixLength(s))]

extract_service_name(app_name) ==
    LET match == SERVICE_NAME_REGEX(app_name)
    IN IF match.matched THEN match.service_prefix ELSE app_name

----------------------------------------------------------------------------
(* Optional values (Python None) and dicts with absent keys *)

NoneOpt == <<>>
Some(v) == <<v>>
IsNone(o) == o = <<>>
IsSome(o) == o # <<>>
Val(o) == o[1]

\* dict.get(key, default) on a record whose absent keys are left out
Get(d, k, default) == IF k \in DOMAIN d THEN d[k] ELSE default

----------------------------------------------------------------------------
(* Settings: app/config.py.  The URLs are environment input; the values   *)
(* here end in "/" so that rstrip acts.                                    *)

grafana_base_url_env == <<"https://grafana.example", "/">>
vault_base_url_env == <<"https://vault.example", "/", "/">>
captain_domain == <<"nonprod.antoniostacos.onglueops.com">>
cache_ttl_seconds == 30
default_mock_fixture == "all-ok"

\* str.rstrip("/")
RECURSIVE RStripSlash(_)
RStripSlash(s) ==
    IF Len(s) > 0 /\ s[Len(s)] = "/" THEN RStripSlash(Take(s, Len(s) - 1)) ELSE s

\* LinksGenerator.__init__
grafana_base_url == RStripSlash(grafana_base_url_env)
vault_base_url == RStripSlash(vault_base_url_env)

----------------------------------------------------------------------------
(* urllib.parse.quote with its default safe="/" *)

UpperLetters == {"A", "B", "C", "D", "E", "F", "G", "H", "I", "J", "K", "L", "M",
                 "N", "O", "P", "Q", "R", "S", "T", "U", "V", "W", "X", "Y", "Z"}
QuoteSafe == LowerLetters \cup UpperLetters \cup Digits \cup {"_", ".", "-", "~", "/"}
QuoteTable == [c \in {":", " ", "\n", "\"", "{", "}", "[", "]", ","} |->
                 CASE c = ":" -> "%3A"
                   [] c = " " -> "%20"
                   [] c = "\n" -> "%0A"
                   [] c = "\"" -> "%22"
                   [] c = "{" -> "%7B"
                   [] c = "}" -> "%7D"
                   [] c = "[" -> "%5B"
                   [] c = "]" -> "%5D"
                   [] c = "," -> "%2C"]

\* one element of a text: a safe character stays, a reserved one is
\* percent-encoded, a literal piece is kept whole and marked as encoded
QuoteChar(c) ==
    IF c \in QuoteSafe THEN c
    ELSE IF c \in DOMAIN QuoteTable THEN QuoteTable[c]
    ELSE "quote(" \o c \o ")"

quote(s) == [i \in 1..Len(s) |-> QuoteChar(s[i])]

----------------------------------------------------------------------------
(* app/models.py: LinkModel, CategoryModel *)

LinkModel(label, url) == [label |-> label, url |-> url]

\* message defaults to None, links to the empty list
CategoryModel(id, label, icon, status, message, links) ==
    [id |-> id, label |-> label, icon |-> icon, status |-> status,
     message |-> message, links |-> links]

----------------------------------------------------------------------------
(* app/quick_links.py *)

generate_quick_links_category(domain) ==
    CategoryModel("quick-links", "Quick Links", "star", "ok", NoneOpt,
        << LinkModel(<<"Cluster Info">>, <<"https://cluster-info.">> \o domain),
           LinkModel(<<"GlueOps Docs">>, <<"https://docs.glueops.dev">>),
           LinkModel(<<"+1-877-GLUEOPS">>, <<"tel:+18774583677">>),
           LinkModel(<<"support@glueops.dev">>, <<"mailto:support@glueops.dev">>) >>)

----------------------------------------------------------------------------
(* app/links_generator.py: the category builders *)

generate_apm_category(service_name) ==
    CategoryModel("apm", "APM Overview", "chart", "ok", NoneOpt,
        << LinkModel(service_name,
             grafana_base_url
             \o <<"/d/opentelemetry-apm/apm-overview?orgId=1&refresh=30s&from=now-1h&to=now&var-app=">>
             \o quote(service_name) \o <<"&var-route=All">>) >>)

generate_namespace_category(namespace) ==
    CategoryModel("namespace", "Kubernetes Overview", "package", "ok", NoneOpt,
        << LinkModel(namespace,
             grafana_base_url
             \o <<"/d/ee58kcteeir5sf/kubernetes-overview?orgId=1&var-namespace=">>
             \o quote(namespace)) >>)

PodLink(pod, namespace) ==
    LinkModel(pod.metadata.name,
        grafana_base_url
        \o <<"/d/ce60j8f8umhhcc/kubernetes-pod-overview?orgId=1&refresh=10s&from=now-1h&to=now">>
        \o <<"&var-datasource=default&var-cluster=&var-namespace=">> \o quote(namespace)
        \o <<"&var-pod=">> \o quote(pod.metadata.name))

generate_pod_category(pods, namespace) ==
    IF pods = <<>>
    THEN CategoryModel("pod", "Pod Metrics", "square", "empty",
                       Some("No pods currently running"), <<>>)
    ELSE CategoryModel("pod", "Pod Metrics", "square", "ok", NoneOpt,
                       [i \in 1..Len(pods) |-> PodLink(pods[i], namespace)])

generate_logs_category(service_name) ==
    CategoryModel("logs", "Logs", "clipboard", "ok", NoneOpt,
        << LinkModel(service_name,
             grafana_base_url
             \o <<"/a/grafana-lokiexplore-app/explore/service/">> \o quote(service_name)
             \o <<"/logs?patterns=%5B%5D&from=now-15m&to=now&var-filters=service_name%7C%3D%7C">>
             \o quote(service_name)
             \o <<"&var-fields=...&sortOrder=%22Descending%22&wrapLogMessage=false">>) >>)

\* json.dumps(panes_data): the object up to the filter value, the value, the
\* rest; the datasource entries are added when tempo_uid is not empty
PanesJson(service_name, tempo_uid) ==
    <<"{", "\"trc\": {\"queries\": [{... \"value\": [", "\"">> \o service_name
    \o <<"\"", "], \"valueType\": \"string\"}]">>
    \o (IF tempo_uid # <<>>
        THEN <<", \"datasource\": {\"type\": \"tempo\", \"uid\": ", "\"">> \o tempo_uid \o <<"\"", "}">>
        ELSE <<>>)
    \o <<"}], \"range\": {\"from\": \"now-1h\", \"to\": \"now\"}">>
    \o (IF tempo_uid # <<>>
        THEN <<", \"datasource\": ", "\"">> \o tempo_uid \o <<"\"">>
        ELSE <<>>)
    \o <<"}", "}">>

generate_traces_category(service_name, tempo_uid) ==
    CategoryModel("traces", "Traces", "magnifier", "ok", NoneOpt,
        << LinkModel(service_name,
             grafana_base_url \o <<"/explore?schemaVersion=1&panes=">>
             \o quote(PanesJson(service_name, tempo_uid)) \o <<"&orgId=1">>) >>)

\* concatenation of a sequence of sequences
RECURSIVE Flatten(_)
Flatten(ss) == IF ss = <<>> THEN <<>> ELSE Head(ss) \o Flatten(Tail(ss))

\* the path taken after the last "/" of the key (key.rsplit("/", 1))
SecretLinks_LastSlash(secret) ==
    LET spec == Get(secret, "spec", <<>>)
        data_from == Get(spec, "dataFrom", <<>>)
        key(i) == Get(Get(data_from[i], "extract", <<>>), "key", <<>>)
        last(k) == CHOOSE j \in 1..Len(k) : k[j] = "/" /\ \A m \in (j + 1)..Len(k) : k[m] # "/"
        link(i) ==
            IF key(i) # <<>> /\ IndexOf(key(i), "/") # 0
            THEN LET secret_path == Drop(key(i), last(key(i)))
                 IN << LinkModel(secret_path,
                          vault_base_url \o <<"/ui/vault/secrets/secret/show/">> \o secret_path) >>
            ELSE <<>>
    IN Flatten([i \in 1..Len(data_from) |-> link(i)])

\* the links one ExternalSecret contributes: one per dataFrom[].extract.key
\* that is not empty and has a "/" (key.split("/", 1) has two parts)
SecretLinks(secret) ==
    LET spec == Get(secret, "spec", <<>>)
        data_from == Get(spec, "dataFrom", <<>>)
        key(i) == Get(Get(data_from[i], "extract", <<>>), "key", <<>>)
        link(i) ==
            IF key(i) # <<>> /\ IndexOf(key(i), "/") # 0
            THEN LET secret_path == Drop(key(i), IndexOf(key(i), "/"))
                 IN << LinkModel(secret_path,
                          vault_base_url \o <<"/ui/vault/secrets/secret/show/">> \o secret_path) >>
            ELSE <<>>
    IN Flatten([i \in 1..Len(data_from) |-> link(i)])

\* the builder without its check for an empty list of links
generate_vault_category_unchecked(external_secrets) ==
    IF external_secrets = <<>>
    THEN CategoryModel("vault", "Vault Secrets", "lock", "empty",
                       Some("No ExternalSecrets configured for this application"), <<>>)
    ELSE CategoryModel("vault", "Vault Secrets", "lock", "ok", NoneOpt,
            Flatten([i \in 1..Len(external_secrets) |-> SecretLinks(external_secrets[i])]))

generate_vault_category(external_secrets) ==
    IF external_secrets = <<>>
    THEN CategoryModel("vault", "Vault Secrets", "lock", "empty",
                       Some("No ExternalSecrets configured for this application"), <<>>)
    ELSE LET links == Flatten([i \in 1..Len(external_secrets) |-> SecretLinks(external_secrets[i])])
         IN IF links = <<>>
            THEN CategoryModel("vault", "Vault Secrets", "lock", "empty",
                               Some("No secret paths found in ExternalSecrets"), <<>>)
            ELSE CategoryModel("vault", "Vault Secrets", "lock", "ok", NoneOpt, links)

----------------------------------------------------------------------------
(* app/k8s_client.py: parse_github_repo_from_argocd_app.  A value file is *)
(* a text whose elements are "/" and whole path components.               *)

\* str.split(sep)
RECURSIVE Split(_, _)
Split(s, sep) ==
    IF IndexOf(s, sep) = 0 THEN <<s>>
    ELSE <<Take(s, IndexOf(s, sep) - 1)>> \o Split(Drop(s, IndexOf(s, sep)), sep)

\* "/<component>/" in value_file
HasSegment(value_file, component) ==
    \E i \in 1..(Len(value_file) - 2) :
        SubSeq(value_file, i, i + 2) = <<"/", component, "/">>

IsValuesRef(source) == Get(source, "ref", "") = "values"
IsHelmWithValueFiles(source) == "helm" \in DOMAIN source /\ "valueFiles" \in DOMAIN source.helm

\* index of the first source with ref == "values", 0 when there is none
FirstValuesSource(sources) ==
    IF \E i \in 1..Len(sources) : IsValuesRef(sources[i])
    THEN CHOOSE i \in 1..Len(sources) :
             IsValuesRef(sources[i]) /\ \A j \in 1..(i - 1) : ~IsValuesRef(sources[j])
    ELSE 0

\* index of the first source with helm.valueFiles, 0 when there is none
FirstHelmSource(sources) ==
    IF \E i \in 1..Len(sources) : IsHelmWithValueFiles(sources[i])
    THEN CHOOSE i \in 1..Len(sources) :
             IsHelmWithValueFiles(sources[i]) /\ \A j \in 1..(i - 1) : ~IsHelmWithValueFiles(sources[j])
    ELSE 0

\* the component after "base" taken for the application directory
AppPathOf_AfterBase(value_file) ==
    IF HasSegment(value_file, "apps") /\ HasSegment(value_file, "base")
    THEN LET parts == Split(value_file, "/")
             base_idx == CHOOSE i \in 1..Len(parts) :
                            parts[i] = <<"base">> /\ \A j \in 1..(i - 1) : parts[j] # <<"base">>
         IN IF base_idx + 1 <= Len(parts)
            THEN Some(<<"apps", "/">> \o parts[base_idx + 1])
            ELSE NoneOpt
    ELSE NoneOpt

\* the app path a value file yields, None when it yields none
AppPathOf(value_file) ==
    IF HasSegment(value_file, "apps") /\ HasSegment(value_file, "base")
    THEN LET parts == Split(value_file, "/")
             apps_idx == CHOOSE i \in 1..Len(parts) :
                            parts[i] = <<"apps">> /\ \A j \in 1..(i - 1) : parts[j] # <<"apps">>
         IN IF apps_idx + 1 <= Len(parts)
            THEN Some(<<"apps", "/">> \o parts[apps_idx + 1])
            ELSE NoneOpt
    ELSE NoneOpt

NoRepo == [repo_url |-> NoneOpt, app_path |-> NoneOpt]

\* the resolver returning the repository it found when no value file
\* gives an application path
parse_github_repo_keeps_repo(argocd_app) ==
    LET spec == Get(argocd_app, "spec", <<>>)
        sources == Get(spec, "sources", <<>>)
        v == FirstValuesSource(sources)
        values_repo == IF v = 0 THEN <<>> ELSE Get(sources[v], "repoURL", <<>>)
        h == FirstHelmSource(sources)
        found == [repo_url |-> Some(values_repo), app_path |-> NoneOpt]
    IN IF values_repo = <<>> THEN NoRepo
       ELSE IF h = 0 THEN found
       ELSE LET value_files == sources[h].helm.valueFiles
                hits == {i \in 1..Len(value_files) : IsSome(AppPathOf(value_files[i]))}
            IN IF hits = {} THEN found
               ELSE LET first == CHOOSE i \in hits : \A j \in hits : i <= j
                    IN [repo_url |-> Some(values_repo), app_path |-> AppPathOf(value_files[first])]

parse_github_repo_from_argocd_app(argocd_app) ==
    LET spec == Get(argocd_app, "spec", <<>>)
        sources == Get(spec, "sources", <<>>)
        v == FirstValuesSource(sources)
        values_repo == IF v = 0 THEN <<>> ELSE Get(sources[v], "repoURL", <<>>)
        h == FirstHelmSource(sources)
    IN IF values_repo = <<>> THEN NoRepo
       ELSE IF h = 0 THEN NoRepo
       ELSE LET value_files == sources[h].helm.valueFiles
                hits == {i \in 1..Len(value_files) : IsSome(AppPathOf(value_files[i]))}
            IN IF hits = {} THEN NoRepo
               ELSE LET first == CHOOSE i \in hits : \A j \in hits : i <= j
                    IN [repo_url |-> Some(values_repo), app_path |-> AppPathOf(value_files[first])]

\* "if not argocd_app": None or an empty dict
Falsy(argocd_app) == IsNone(argocd_app) \/ DOMAIN Val(argocd_app) = {}

\* the builder linking to the default branch whatever the source says
generate_iaac_category_main(argocd_app) ==
    IF Falsy(argocd_app)
    THEN CategoryModel("iaac", "IaaC", "gear", "error",
                       Some("ArgoCD application not found"), <<>>)
    ELSE LET parsed == parse_github_repo_from_argocd_app(Val(argocd_app))
         IN IF IsNone(parsed.repo_url) \/ IsNone(parsed.app_path)
               \/ Val(parsed.repo_url) = <<>> \/ Val(parsed.app_path) = <<>>
            THEN CategoryModel("iaac", "IaaC", "gear", "error",
                    Some("Unable to parse deployment configuration from ArgoCD manifest"), <<>>)
            ELSE CategoryModel("iaac", "IaaC", "gear", "ok", NoneOpt,
                    << LinkModel(<<"Deployment Configuration">>,
                          Val(parsed.repo_url) \o <<"/tree/">> \o <<"main">> \o <<"/">>
                          \o Val(parsed.app_path)) >>)

generate_iaac_category(argocd_app) ==
    IF Falsy(argocd_app)
    THEN CategoryModel("iaac", "IaaC", "gear", "error",
                       Some("ArgoCD application not found"), <<>>)
    ELSE LET parsed == parse_github_repo_from_argocd_app(Val(argocd_app))
             sources == Get(Get(Val(argocd_app), "spec", <<>>), "sources", <<>>)
             v == FirstValuesSource(sources)
             branch == IF v = 0 THEN <<"main">> ELSE Get(sources[v], "targetRevision", <<"main">>)
         IN IF IsNone(parsed.repo_url) \/ IsNone(parsed.app_path)
               \/ Val(parsed.repo_url) = <<>> \/ Val(parsed.app_path) = <<>>
            THEN CategoryModel("iaac", "IaaC", "gear", "error",
                    Some("Unable to parse deployment configuration from ArgoCD manifest"), <<>>)
            ELSE CategoryModel("iaac", "IaaC", "gear", "ok", NoneOpt,
                    << LinkModel(<<"Deployment Configuration">>,
                          Val(parsed.repo_url) \o <<"/tree/">> \o branch \o <<"/">>
                          \o Val(parsed.app_path)) >>)

\* the list with the Pod category moved behind the IaaC category
Categories_PodLast(argocd_app, pods, external_secrets, service_name, target_namespace, tempo_uid) ==
    << generate_quick_links_category(captain_domain),
       generate_apm_category(service_name),
       generate_namespace_category(target_namespace),
       generate_logs_category(service_name),
       generate_traces_category(service_name, tempo_uid),
       generate_vault_category(external_secrets),
       generate_iaac_category(argocd_app),
       generate_pod_category(pods, target_namespace) >>

\* generate_links, the list of categories in its fixed order
Categories(argocd_app, pods, external_secrets, service_name, target_namespace, tempo_uid) ==
    << generate_quick_links_category(captain_domain),
       generate_apm_category(service_name),
       generate_namespace_category(target_namespace),
       generate_pod_category(pods, target_namespace),
       generate_logs_category(service_name),
       generate_traces_category(service_name, tempo_uid),
       generate_vault_category(external_secrets),
       generate_iaac_category(argocd_app) >>

----------------------------------------------------------------------------
(* Replies of the Kubernetes API to one call, and exceptions.  A call      *)
(* returns a value, raises ApiException with a status, or raises another   *)
(* exception (connection refused, timeout: urllib3, not ApiException).     *)

ApiOk(v) == [kind |-> "ok", value |-> v]
ApiException(status) == [kind |-> "ApiException", status |-> status]
TransportError == [kind |-> "Exception"]

Returned(v) == [raised |-> NoneOpt, value |-> v]
Raised(exc) == [raised |-> Some(exc), value |-> NoneOpt]

\* the methods class K8sClient defines
K8sClientMethods ==
    {"ping", "extract_service_name", "get_argocd_application", "get_deployment",
     "get_first_pod", "get_external_secrets", "parse_github_repo_from_argocd_app"}

TrackingKey == "argocd.argoproj.io/tracking-id"

\* the namespaces get_argocd_application tries, in order
ArgocdNamespaces(namespace) == << <<"glueops-core">>, <<"argocd">>, namespace >>

\* the loop over the candidate namespaces from position i on; replies[i] is
\* the reply to the probe of the i-th namespace
RECURSIVE ProbeFrom(_, _)
ProbeFrom(i, replies) ==
    IF i > Len(replies) THEN [raised |-> NoneOpt, value |-> NoneOpt, probes |-> Len(replies)]
    ELSE IF replies[i].kind = "ok"
         THEN [raised |-> NoneOpt, value |-> Some(replies[i].value), probes |-> i]
    ELSE IF replies[i].kind = "ApiException"
         THEN ProbeFrom(i + 1, replies)
    ELSE [raised |-> Some("Exception"), value |-> NoneOpt, probes |-> i]

get_argocd_application(name, namespace, replies) == ProbeFrom(1, replies)

TrackingId(metadata) ==
    LET annotations == IF "annotations" \in DOMAIN metadata THEN metadata.annotations ELSE <<>>
    IN Get(annotations, TrackingKey, <<>>)

\* the items whose tracking id starts with the prefix, in list order
RECURSIVE Tracked(_, _)
Tracked(items, prefix) ==
    IF items = <<>> THEN <<>>
    ELSE (IF StartsWith(TrackingId(Get(Head(items), "metadata", <<>>)), prefix)
          THEN <<Head(items)>> ELSE <<>>) \o Tracked(Tail(items), prefix)

\* the lookup with a prefix that leaves the namespace out
get_deployment_any_namespace(name, namespace, reply) ==
    IF reply.kind = "ok"
    THEN LET found == Tracked(reply.value, name \o <<":apps/Deployment:">>)
         IN Returned(IF found = <<>> THEN NoneOpt ELSE Some(Head(found)))
    ELSE IF reply.kind = "ApiException" THEN Returned(NoneOpt)
    ELSE Raised("Exception")

get_deployment(name, namespace, reply) ==
    IF reply.kind = "ok"
    THEN LET found == Tracked(reply.value, name \o <<":apps/Deployment:">> \o namespace \o <<"/">>)
         IN Returned(IF found = <<>> THEN NoneOpt ELSE Some(Head(found)))
    ELSE IF reply.kind = "ApiException" THEN Returned(NoneOpt)
    ELSE Raised("Exception")

get_first_pod(deployment_name, namespace, reply) ==
    IF reply.kind = "ok"
    THEN Returned(IF reply.value = <<>> THEN NoneOpt ELSE Some(Head(reply.value)))
    ELSE IF reply.kind = "ApiException" THEN Returned(NoneOpt)
    ELSE Raised("Exception")

\* the lookup that stops at the first match
get_external_secrets_first_only(app_name, namespace, reply) ==
    IF reply.kind = "ok"
    THEN LET found == Tracked(reply.value,
                         app_name \o <<":external-secrets.io/ExternalSecret:">> \o namespace \o <<"/">>)
         IN Returned(IF found = <<>> THEN <<>> ELSE <<Head(found)>>)
    ELSE IF reply.kind = "ApiException" THEN Returned(<<>>)
    ELSE Raised("Exception")

get_external_secrets(app_name, namespace, reply) ==
    IF reply.kind = "ok"
    THEN Returned(Tracked(reply.value,
             app_name \o <<":external-secrets.io/ExternalSecret:">> \o namespace \o <<"/">>))
    ELSE IF reply.kind = "ApiException" THEN Returned(<<>>)
    ELSE Raised("Exception")

\* self.k8s_client.<method>(...): a name the class does not define raises
\* AttributeError before any request leaves the process
CallK8s(method, result) ==
    IF method \in K8sClientMethods THEN result ELSE Raised("AttributeError")

\* get_pods as the design describes it (list by label selector, empty list
\* when none); class K8sClient does not define it
get_pods(deployment_name, namespace, reply) ==
    IF reply.kind = "ok" THEN Returned(reply.value)
    ELSE IF reply.kind = "ApiException" THEN Returned(<<>>)
    ELSE Raised("Exception")

----------------------------------------------------------------------------
(* app/models.py: construction of a pydantic model.  A required field     *)
(* that is not given raises ValidationError, a field the model does not   *)
(* declare is ignored, a declared field that is not given takes its       *)
(* default.                                                                *)

Construct(required, defaults, given) ==
    IF required \subseteq DOMAIN given
    THEN Returned([f \in required \cup DOMAIN defaults |->
                     IF f \in DOMAIN given THEN given[f] ELSE defaults[f]])
    ELSE Raised("ValidationError")

ResourceMetadata(given) ==
    Construct({"argocd_app", "deployment", "pods_found", "external_secrets_found"}, <<>>, given)

ResponseMetadata(given) ==
    Construct({"generated_at", "resources"}, [version |-> <<"v1">>], given)

LinksResponse(given) ==
    Construct({"app_name", "namespace", "service_name", "last_updated", "categories", "metadata"},
              <<>>, given)

\* datetime.now(timezone.utc) at second t
DateTime(t) == [datetime |-> t]

----------------------------------------------------------------------------
(* app/links_generator.py: generate_links.  cluster holds the replies the  *)
(* API gives to the calls of this run: apps (one per candidate namespace), *)
(* deployments, pods, secrets.  The result carries the calls that left the *)
(* process, in order.                                                      *)

Call(api, namespace) == [target |-> "cluster", api |-> api, arg |-> namespace]

ApplicationCalls(namespace, probes) ==
    [i \in 1..probes |-> Call("applications", ArgocdNamespaces(namespace)[i])]

\* spec.destination.namespace of a found Application, else the given one
TargetNamespace(argocd_app, namespace) ==
    IF Falsy(argocd_app) THEN namespace
    ELSE Get(Get(Get(Val(argocd_app), "spec", <<>>), "destination", <<>>), "namespace", namespace)

Failed(exc, calls) == [raised |-> Some(exc), value |-> NoneOpt, calls |-> calls, categories |-> NoneOpt]

\* lines 59-95: metadata, categories, response
BuildResponse(app_name, target_namespace, argocd_app, deployment, pods, external_secrets, now, tempo_uid, calls) ==
    LET service_name == app_name
        resources == ResourceMetadata(
            [argocd_app |-> IsSome(argocd_app), deployment |-> IsSome(deployment),
             pods_found |-> Len(pods), external_secrets_found |-> Len(external_secrets)])
        metadata == ResponseMetadata(
            [generated_at |-> DateTime(now), last_updated |-> DateTime(now), max_rows |-> 4,
             version |-> <<"v1">>, resources |-> resources.value])
        categories == Categories(argocd_app, pods, external_secrets, service_name,
                                 target_namespace, tempo_uid)
        response == LinksResponse(
            [app_name |-> app_name, namespace |-> target_namespace,
             service_name |-> service_name, categories |-> categories,
             metadata |-> metadata.value])
    IN [raised |-> response.raised, value |-> response.value, calls |-> calls,
        categories |-> Some(categories)]

generate_links(app_name, namespace, cluster, now, tempo_uid) ==
    LET a == CallK8s("get_argocd_application",
                     get_argocd_application(app_name, namespace, cluster.apps))
        calls1 == ApplicationCalls(namespace, a.probes)
        argocd_app == a.value
        target_namespace == TargetNamespace(argocd_app, namespace)
        d == CallK8s("get_deployment",
                     get_deployment(app_name, target_namespace, cluster.deployments))
        calls2 == calls1 \o <<Call("deployments", target_namespace)>>
        deployment == d.value
        p == IF IsSome(deployment)
             THEN CallK8s("get_pods",
                          get_pods(Val(deployment).metadata.name, target_namespace, cluster.pods))
             ELSE Returned(<<>>)
        calls3 == calls2 \o (IF IsSome(deployment) /\ "get_pods" \in K8sClientMethods
                             THEN <<Call("pods", target_namespace)>> ELSE <<>>)
        e == CallK8s("get_external_secrets",
                     get_external_secrets(app_name, target_namespace, cluster.secrets))
        calls4 == calls3 \o <<Call("externalsecrets", target_namespace)>>
    IN IF IsSome(a.raised) THEN Failed(Val(a.raised), calls1)
       ELSE IF IsSome(d.raised) THEN Failed(Val(d.raised), calls2)
       ELSE IF IsSome(p.raised) THEN Failed(Val(p.raised), calls3)
       ELSE IF IsSome(e.raised) THEN Failed(Val(e.raised), calls4)
       ELSE BuildResponse(app_name, target_namespace, argocd_app, deployment, p.value,
                          e.value, now, tempo_uid, calls4)

----------------------------------------------------------------------------
(* app/cache.py: CacheManager over the Valkey store.  An entry is          *)
(* [key, value, expires]; the store does not return an entry at or after   *)
(* its expiry.  fail says whether the backend fails on this call.          *)

CacheCall(op, key) == [target |-> "cache", api |-> op, arg |-> key]

\* json.dumps(value, default=str): the JSON text of a dumped response; a
\* datetime becomes its str() text
DateTimeStr(d) == [str |-> d.datetime]
JsonDumps(value) ==
    [json |-> [value EXCEPT !.last_updated = DateTimeStr(@),
                            !.metadata = [@ EXCEPT !.generated_at = DateTimeStr(@)]]]

\* json.loads: the dict a JSON text stands for
JsonLoads(text) == text.json

\* the text read as a naive local time, one hour off
ParseDateTime_Naive(x) == IF "str" \in DOMAIN x THEN [datetime |-> x.str + 3600] ELSE x

\* pydantic reads a datetime from its str() text
ParseDateTime(x) == IF "str" \in DOMAIN x THEN [datetime |-> x.str] ELSE x

\* LinksResponse(**cached), and the response_model validation of a dict
FromDict(d) ==
    LET meta == IF "metadata" \in DOMAIN d /\ "generated_at" \in DOMAIN d.metadata
                   /\ "resources" \in DOMAIN d.metadata
                THEN ResponseMetadata([d.metadata EXCEPT !.generated_at = ParseDateTime(@)])
                ELSE Raised("ValidationError")
    IN IF IsSome(meta.raised) THEN meta
       ELSE LinksResponse(
              [f \in DOMAIN d |->
                 IF f = "metadata" THEN meta.value
                 ELSE IF f = "last_updated" THEN ParseDateTime(d[f])
                 ELSE d[f]])

Live(store, now) == {e \in store : now < e.expires}

\* self.client.get(key)
ClientGet(store, key, now) ==
    IF \E e \in Live(store, now) : e.key = key
    THEN Some((CHOOSE e \in Live(store, now) : e.key = key).value)
    ELSE NoneOpt

\* CacheManager.get: the dict under key, None on a miss or a backend failure
CacheGet(store, key, now, fail) ==
    IF fail THEN NoneOpt
    ELSE LET value == ClientGet(store, key, now)
         IN IF IsSome(value) THEN Some(JsonLoads(Val(value))) ELSE NoneOpt

\* CacheManager.set: setex(key, ttl, json.dumps(value)); a failure is dropped.
\* value is response.model_dump(), the dict with the fields of the response
CacheSet(store, key, value, now, fail) ==
    IF fail THEN store
    ELSE {e \in store : e.key # key}
         \cup {[key |-> key, value |-> JsonDumps(value), expires |-> now + cache_ttl_seconds]}

\* CacheManager.ping: True when the backend answers, False when it fails
CachePing(up) == Returned(up)

\* K8sClient.ping
K8sPing(up) == Returned(up)

----------------------------------------------------------------------------
(* Bounds and inputs *)

MaxReqs == 2
TickSeconds == 15
MaxClock == 30

Reqs == 1..MaxReqs

AppNames == { <<"a">>, <<"a", ":", "b">> }
Headers == { <<"n", ":", "a">>, <<"m", ":", "a">>, <<"n", ":", "b">>, <<"n", "a">>,
             <<"n", ":", "a", ":", "b">> }

\* objects of the cluster
AppPlain == [metadata |-> [name |-> <<"a">>]]
AppWithDestination ==
    [metadata |-> [name |-> <<"a">>],
     spec |-> [destination |-> [namespace |-> <<"t">>]]]
DeploymentOf(app, ns, name) ==
    [metadata |-> [name |-> name,
                   annotations |-> (TrackingKey :> (app \o <<":apps/Deployment:">> \o ns \o <<"/">> \o name))]]
DeploymentBare(name) == [metadata |-> [name |-> name]]
PodNamed(name) == [metadata |-> [name |-> name]]
SecretOf(app, ns, name, keys) ==
    [metadata |-> [name |-> name,
                   annotations |-> (TrackingKey :> (app \o <<":external-secrets.io/ExternalSecret:">> \o ns \o <<"/">> \o name))],
     spec |-> [dataFrom |-> [i \in 1..Len(keys) |-> [extract |-> [key |-> keys[i]]]]]]

NotFound == ApiException(404)
Forbidden == ApiException(403)

\* the replies of the cluster to one run of the pipeline
ClusterNames == {"absent", "app-only", "deployed", "forbidden", "drop-on-probe", "drop-on-secrets"}

Cluster(name) ==
    CASE name = "absent" ->
      [apps |-> <<NotFound, NotFound, NotFound>>, deployments |-> ApiOk(<<>>),
       pods |-> ApiOk(<<>>), secrets |-> NotFound]
      \* Application in glueops-core, nothing deployed
      [] name = "app-only" ->
      [apps |-> <<ApiOk(AppPlain), NotFound, NotFound>>, deployments |-> ApiOk(<<DeploymentBare(<<"x">>)>>),
       pods |-> ApiOk(<<>>), secrets |-> ApiOk(<<>>)]
      \* Application in the argocd namespace with a destination, Deployment and pods there
      [] name = "deployed" ->
      [apps |-> <<Forbidden, ApiOk(AppWithDestination), NotFound>>,
       deployments |-> ApiOk(<<DeploymentOf(<<"a">>, <<"t">>, <<"d">>)>>),
       pods |-> ApiOk(<<PodNamed(<<"p">>)>>),
       secrets |-> ApiOk(<<SecretOf(<<"a">>, <<"t">>, <<"s">>, << <<"secret", "/", "pg">> >>)>>)]
      \* the API refuses the lists
      [] name = "forbidden" ->
      [apps |-> <<NotFound, NotFound, ApiOk(AppPlain)>>, deployments |-> Forbidden,
       pods |-> Forbidden, secrets |-> Forbidden]
      \* the connection drops on the second probe
      [] name = "drop-on-probe" ->
      [apps |-> <<NotFound, TransportError, NotFound>>, deployments |-> ApiOk(<<>>),
       pods |-> ApiOk(<<>>), secrets |-> ApiOk(<<>>)]
      \* the connection drops on the ExternalSecrets list
      [] name = "drop-on-secrets" ->
      [apps |-> <<NotFound, NotFound, NotFound>>, deployments |-> ApiOk(<<>>),
       pods |-> ApiOk(<<>>), secrets |-> TransportError]

----------------------------------------------------------------------------
(* app/main.py: responses *)

Response(status, body) == [status |-> status, body |-> body]

HTTPException(status, detail) == Response(status, [detail |-> detail])

\* global_exception_handler
global_exception_handler(exc) == Response(500, [detail |-> <<"Internal server error">>])

\* a returned value goes through response_model=LinksResponse; a value that
\* does not validate raises in the framework, outside the handler's try
ServeLinks(result) ==
    IF IsSome(result.raised) THEN global_exception_handler(Val(result.raised))
    ELSE Response(200, result.value)

\* app/fixtures.py: get_fixture(name, app_name), the keys of the dict
FixtureNamespace == <<"nonprod">>
get_fixture(name, app_name) ==
    [app_name |-> app_name, namespace |-> FixtureNamespace, service_name |-> app_name,
     categories |-> <<generate_quick_links_category(captain_domain)>>,
     metadata |-> [generated_at |-> [str |-> 0], last_updated |-> [str |-> 0], max_rows |-> 4,
                   version |-> <<"v1">>,
                   resources |-> [argocd_app |-> TRUE, deployment |-> TRUE, pods_found |-> 2,
                                  external_secrets_found |-> 2]]]

\* the split taken at the last ":" (rsplit) instead of the first
SplitHeader_Last(header) ==
    LET colons == {i \in 1..Len(header) : header[i] = ":"}
        i == CHOOSE k \in colons : \A j \in colons : j <= k
    IN IF colons = {} THEN Raised("ValueError")
       ELSE Returned([namespace |-> Take(header, i - 1), header_app_name |-> Drop(header, i)])

\* argocd_application_name.split(":", 1)
SplitHeader(header) ==
    LET i == IndexOf(header, ":")
    IN IF i = 0 THEN Raised("ValueError")
       ELSE Returned([namespace |-> Take(header, i - 1), header_app_name |-> Drop(header, i)])

\* the key without the namespace of the header
CacheKey_AppOnly(namespace, app_name) == <<"gluelinks:v1:">> \o app_name

CacheKey(namespace, app_name) == <<"gluelinks:v1:">> \o namespace \o <<":">> \o app_name

----------------------------------------------------------------------------
(* State *)

NoReq == 0

IdleRequest ==
    [pc |-> "idle", kind |-> "none", app_name |-> <<>>, header |-> <<>>, namespace |-> <<>>,
     calls |-> <<>>, cached |-> NoneOpt, faults |-> <<>>, cluster |-> "none",
     pings |-> NoneOpt, outcome |-> "none", response |-> NoneOpt]

\* a response a release of the service that supplies last_updated stored
\* under the key of (namespace, app_name) at second t
StoredResponse(namespace, app_name, t) ==
    [app_name |-> app_name, namespace |-> namespace, service_name |-> app_name,
     last_updated |-> DateTime(t),
     categories |-> Categories(NoneOpt, <<>>, <<>>, app_name, namespace, <<>>),
     metadata |-> [generated_at |-> DateTime(t), version |-> <<"v1">>,
                   resources |-> [argocd_app |-> FALSE, deployment |-> FALSE, pods_found |-> 0,
                                  external_secrets_found |-> 0]]]

\* what the store holds when the process starts: nothing, or one entry that
\* is still within its time to live
InitialStores ==
    { {},
      CacheSet({}, CacheKey(<<"n">>, <<"a">>), StoredResponse(<<"n">>, <<"a">>, 0), 0 - TickSeconds, FALSE) }

HarnessIdle ==
    /\ svc_in = <<>>
    /\ svc_out = NoneOpt
    /\ b_in = <<>>
    /\ b_out = NoneOpt

Init ==
    /\ use_mock_data \in BOOLEAN
    /\ cache \in InitialStores
    /\ clock = 0
    /\ req = [r \in Reqs |-> IdleRequest]
    /\ running = NoReq
    /\ HarnessIdle

\* the handler of r returns or raises: the response goes out
Finish(r, outcome, response, calls, faults, cluster) ==
    /\ req' = [req EXCEPT ![r].pc = "done", ![r].outcome = outcome,
                          ![r].response = Some(response), ![r].calls = @ \o calls,
                          ![r].faults = @ \o faults, ![r].cluster = cluster]
    /\ running' = NoReq

\* the event loop starts a handler when it runs none; the handlers have no
\* point of suspension, so the one that runs is the only one in progress
CanStart(r) ==
    /\ running = NoReq
    /\ req[r].pc = "idle"
    /\ \A q \in Reqs : q < r => req[q].pc # "idle"

----------------------------------------------------------------------------
(* Handlers *)

\* GET /api/v1/health
health_check(r) ==
    /\ CanStart(r)
    /\ req' = [req EXCEPT ![r].pc = "done", ![r].kind = "health", ![r].outcome = "health",
                          ![r].response = Some(Response(200,
                              [status |-> <<"healthy">>, timestamp |-> DateTime(clock),
                               version |-> <<"v1">>]))]
    /\ UNCHANGED <<use_mock_data, cache, clock, running, svc_in, svc_out, b_in, b_out>>

\* the checks of readiness_check: a check is set when its ping does not raise
ReadyChecks(cache_up, k8s_up) ==
    [cache |-> IsNone(CachePing(cache_up).raised),
     kubernetes |-> IsNone(K8sPing(k8s_up).raised)]

\* GET /api/v1/ready; pings records what the two backends did
readiness_check(r) ==
    /\ CanStart(r)
    /\ \E cache_up \in BOOLEAN, k8s_up \in BOOLEAN :
         LET checks == ReadyChecks(cache_up, k8s_up)
         IN req' = [req EXCEPT ![r].pc = "done", ![r].kind = "ready",
                       ![r].outcome = "ready",
                       ![r].pings = Some([cache |-> cache_up, kubernetes |-> k8s_up]),
                       ![r].response = Some(Response(200,
                           [ready |-> checks.cache /\ checks.kubernetes, checks |-> checks,
                            timestamp |-> DateTime(clock)]))]
    /\ UNCHANGED <<use_mock_data, cache, clock, running, svc_in, svc_out, b_in, b_out>>

\* GET /api/v1/applications/{app_name}/links: the request arrives
Receive(r) ==
    /\ CanStart(r)
    /\ \E app_name \in AppNames, header \in Headers :
         req' = [req EXCEPT ![r].pc = "received", ![r].kind = "links",
                            ![r].app_name = app_name, ![r].header = header]
    /\ running' = r
    /\ UNCHANGED <<use_mock_data, cache, clock, svc_in, svc_out, b_in, b_out>>

\* the handler with the cache lookup moved before the checks of the header
Validate_LookupFirst(r) ==
    /\ running = r
    /\ req[r].pc = "received"
    /\ LET parsed == SplitHeader(req[r].header)
           looked == <<CacheCall("get", <<"gluelinks:v1:">> \o req[r].header)>>
       IN IF use_mock_data
          THEN Finish(r, "mock", ServeLinks(FromDict(get_fixture(default_mock_fixture, req[r].app_name))),
                      <<>>, <<>>, "none")
          ELSE IF IsSome(parsed.raised)
          THEN Finish(r, "invalid_header_format",
                      HTTPException(400, <<"Invalid Argocd-Application-Name header format">> \o req[r].header),
                      looked, <<>>, "none")
          ELSE IF req[r].app_name # parsed.value.header_app_name
          THEN Finish(r, "app_name_mismatch",
                      HTTPException(400, <<"Application name mismatch">> \o req[r].app_name
                                         \o <<"header">> \o parsed.value.header_app_name),
                      looked, <<>>, "none")
          ELSE /\ req' = [req EXCEPT ![r].pc = "cache", ![r].namespace = parsed.value.namespace]
               /\ UNCHANGED running
    /\ UNCHANGED <<use_mock_data, cache, clock, svc_in, svc_out, b_in, b_out>>

\* lines 114-141: mock mode, then the header
Validate(r) ==
    /\ running = r
    /\ req[r].pc = "received"
    /\ LET parsed == SplitHeader(req[r].header)
       IN IF use_mock_data
          THEN Finish(r, "mock", ServeLinks(FromDict(get_fixture(default_mock_fixture, req[r].app_name))),
                      <<>>, <<>>, "none")
          ELSE IF IsSome(parsed.raised)
          THEN Finish(r, "invalid_header_format",
                      HTTPException(400, <<"Invalid Argocd-Application-Name header format">> \o req[r].header),
                      <<>>, <<>>, "none")
          ELSE IF req[r].app_name # parsed.value.header_app_name
          THEN Finish(r, "app_name_mismatch",
                      HTTPException(400, <<"Application name mismatch">> \o req[r].app_name
                                         \o <<"header">> \o parsed.value.header_app_name),
                      <<>>, <<>>, "none")
          ELSE /\ req' = [req EXCEPT ![r].pc = "cache", ![r].namespace = parsed.value.namespace]
               /\ UNCHANGED running
    /\ UNCHANGED <<use_mock_data, cache, clock, svc_in, svc_out, b_in, b_out>>

\* the cache lookup with a hit that renews the time to live of its entry
CacheLookup_Touch(r) ==
    /\ running = r
    /\ req[r].pc = "cache"
    /\ \E fail \in BOOLEAN :
         LET cache_key == CacheKey(req[r].namespace, req[r].app_name)
             cached == CacheGet(cache, cache_key, clock, fail)
             call == <<CacheCall("get", cache_key)>>
             faults == IF fail THEN <<"get">> ELSE <<>>
         IN IF IsSome(cached) /\ DOMAIN Val(cached) # {}
            THEN /\ req' = [req EXCEPT ![r].pc = "done", ![r].outcome = "cache_hit",
                               ![r].cached = cached, ![r].calls = @ \o call,
                               ![r].response = Some(ServeLinks(FromDict(Val(cached))))]
                 /\ running' = NoReq
                 /\ cache' = {IF e.key = cache_key
                                THEN [e EXCEPT !.expires = clock + cache_ttl_seconds]
                                ELSE e : e \in cache}
            ELSE /\ req' = [req EXCEPT ![r].pc = "generate", ![r].calls = @ \o call,
                               ![r].faults = @ \o faults]
                 /\ UNCHANGED <<running, cache>>
    /\ UNCHANGED <<use_mock_data, clock, svc_in, svc_out, b_in, b_out>>

\* lines 143-151: the cache lookup
CacheLookup(r) ==
    /\ running = r
    /\ req[r].pc = "cache"
    /\ \E fail \in BOOLEAN :
         LET cache_key == CacheKey(req[r].namespace, req[r].app_name)
             cached == CacheGet(cache, cache_key, clock, fail)
             call == <<CacheCall("get", cache_key)>>
             faults == IF fail THEN <<"get">> ELSE <<>>
         IN IF IsSome(cached) /\ DOMAIN Val(cached) # {}
            THEN /\ req' = [req EXCEPT ![r].pc = "done", ![r].outcome = "cache_hit",
                               ![r].cached = cached, ![r].calls = @ \o call,
                               ![r].response = Some(ServeLinks(FromDict(Val(cached))))]
                 /\ running' = NoReq
            ELSE /\ req' = [req EXCEPT ![r].pc = "generate", ![r].calls = @ \o call,
                               ![r].faults = @ \o faults]
                 /\ UNCHANGED running
    /\ UNCHANGED <<use_mock_data, cache, clock, svc_in, svc_out, b_in, b_out>>

\* the handler putting the text of the exception into the detail it returns
Generate_ExceptionInDetail(r) ==
    /\ running = r
    /\ req[r].pc = "generate"
    /\ \E cluster \in ClusterNames, fail \in BOOLEAN :
         LET cache_key == CacheKey(req[r].namespace, req[r].app_name)
             g == generate_links(req[r].app_name, req[r].namespace, Cluster(cluster), clock, <<>>)
         IN IF IsSome(g.raised)
            THEN /\ Finish(r, "links_generation_failed",
                      HTTPException(500, <<"Failed to generate links: ", Val(g.raised)>>),
                      g.calls, <<>>, cluster)
                 /\ UNCHANGED cache
            ELSE /\ cache' = CacheSet(cache, cache_key, g.value, clock, fail)
                 /\ Finish(r, "links_generated", ServeLinks(g),
                           g.calls \o <<CacheCall("set", cache_key)>>,
                           IF fail THEN <<"set">> ELSE <<>>, cluster)
    /\ UNCHANGED <<use_mock_data, clock, svc_in, svc_out, b_in, b_out>>

\* lines 153-171: the pipeline, the cache write, the response
Generate(r) ==
    /\ running = r
    /\ req[r].pc = "generate"
    /\ \E cluster \in ClusterNames, fail \in BOOLEAN :
         LET cache_key == CacheKey(req[r].namespace, req[r].app_name)
             g == generate_links(req[r].app_name, req[r].namespace, Cluster(cluster), clock, <<>>)
         IN IF IsSome(g.raised)
            THEN /\ Finish(r, "links_generation_failed",
                      HTTPException(500, <<"Failed to generate links. Check logs for details.">>),
                      g.calls, <<>>, cluster)
                 /\ UNCHANGED cache
            ELSE /\ cache' = CacheSet(cache, cache_key, g.value, clock, fail)
                 /\ Finish(r, "links_generated", ServeLinks(g),
                           g.calls \o <<CacheCall("set", cache_key)>>,
                           IF fail THEN <<"set">> ELSE <<>>, cluster)
    /\ UNCHANGED <<use_mock_data, clock, svc_in, svc_out, b_in, b_out>>

\* time passes; the store drops what has expired
Tick ==
    /\ clock + TickSeconds <= MaxClock
    /\ clock' = clock + TickSeconds
    /\ cache' = Live(cache, clock + TickSeconds)
    /\ UNCHANGED <<use_mock_data, req, running, svc_in, svc_out, b_in, b_out>>

Next ==
    \/ \E r \in Reqs : health_check(r)
    \/ \E r \in Reqs : readiness_check(r)
    \/ \E r \in Reqs : Receive(r)
    \/ \E r \in Reqs : Validate(r)
    \/ \E r \in Reqs : CacheLookup(r)
    \/ \E r \in Reqs : Generate(r)
    \/ Tick

Spec == Init /\ [][Next]_vars

----------------------------------------------------------------------------
(* extract_service_name applied to names *)

MaxNameLen == 3

TacoBackendProd ==
    <<"t", "a", "c", "o", "-", "b", "a", "c", "k", "e", "n", "d", "-", "p", "r", "o", "d">>
TacoBackendProdPod ==
    TacoBackendProd \o <<"-", "6", "7", "7", "b", "f", "b", "5", "5", "b", "7", "-", "9", "4", "2", "n", "r">>

SvcInputs ==
    SeqsUpTo({"a", "z", "7", "-"}, MaxNameLen)
    \cup { TacoBackendProd, TacoBackendProdPod,
           <<"x", "-", "6", "7", "7", "b", "f", "b", "5", "5", "b", "7">>,
           <<"x", "-", "4", "2">>,
           <<"x", "-", "z", "z", "z", "z", "z", "z", "z">>,
           <<"x", "-", "P", "r", "o", "d">>,
           <<"x", "\n">>, <<"\n", "x">> }

ServicesIdle ==
    /\ use_mock_data = FALSE
    /\ cache = {}
    /\ clock = 0
    /\ req = [r \in Reqs |-> IdleRequest]
    /\ running = NoReq

InitSvc ==
    /\ ServicesIdle
    /\ svc_in \in SvcInputs
    /\ svc_out = NoneOpt
    /\ b_in = <<>>
    /\ b_out = NoneOpt

CallExtractServiceName ==
    /\ svc_out = NoneOpt
    /\ svc_out' = Some(extract_service_name(svc_in))
    /\ UNCHANGED <<use_mock_data, cache, clock, req, running, svc_in, b_in, b_out>>

NextSvc == CallExtractServiceName

SpecSvc == InitSvc /\ [][NextSvc]_vars

----------------------------------------------------------------------------
(* The category builders applied to what the cluster may hold *)

MaxPods == 2
MaxSecrets == 2

ValuesSource == [ref |-> "values", repoURL |-> <<"https://github.com/org/cfg">>,
                 targetRevision |-> <<"prod">>]
HelmSource(files) == [repoURL |-> <<"https://charts.example">>, helm |-> [valueFiles |-> files]]
BaseValues == <<"$values", "/", "apps", "/", "taco", "/", "base", "/", "values.yaml">>
EnvValues == <<"$values", "/", "env", "/", "values.yaml">>

BuilderApps ==
    { NoneOpt,
      Some(<<>>),
      Some(AppPlain),
      Some([spec |-> [sources |-> <<HelmSource(<<EnvValues, BaseValues>>), ValuesSource>>]]),
      Some([spec |-> [sources |-> <<HelmSource(<<EnvValues>>), ValuesSource>>]]),
      Some([spec |-> [sources |-> <<HelmSource(<<BaseValues>>)>>]]) }

BuilderSecrets ==
    { SecretOf(<<"a">>, <<"n">>, <<"s">>, << <<"secret", "/", "pg">> >>),
      SecretOf(<<"a">>, <<"n">>, <<"s">>, << <<"pg">>, <<"kv", "/", "x", "/", "y">> >>),
      SecretOf(<<"a">>, <<"n">>, <<"s">>, << <<>> >>),
      SecretOf(<<"a">>, <<"n">>, <<"s">>, <<>>),
      SecretOf(<<"a">>, <<"n">>, <<"s">>, << <<"secret", "/", "postgres-details">>, <<"secret", "/">> >>),
      [metadata |-> [name |-> <<"s">>]] }

BuilderInputs ==
    [argocd_app : BuilderApps,
     pods : SeqsUpTo({PodNamed(<<"p">>), PodNamed(<<"q", ":">>)}, MaxPods),
     external_secrets : SeqsUpTo(BuilderSecrets, MaxSecrets),
     service_name : {<<"a">>, <<"a", ":", "b">>},
     target_namespace : {<<"n">>},
     tempo_uid : {<<>>, <<"uid">>}]

InitBuild ==
    /\ ServicesIdle
    /\ svc_in = <<>>
    /\ svc_out = NoneOpt
    /\ b_in \in BuilderInputs
    /\ b_out = NoneOpt

CallCategories ==
    /\ b_out = NoneOpt
    /\ b_out' = Some(Categories(b_in.argocd_app, b_in.pods, b_in.external_secrets,
                                b_in.service_name, b_in.target_namespace, b_in.tempo_uid))
    /\ UNCHANGED <<use_mock_data, cache, clock, req, running, svc_in, svc_out, b_in>>

NextBuild == CallCategories

SpecBuild == InitBuild /\ [][NextBuild]_vars

----------------------------------------------------------------------------
(* Properties *)

CategoryIds == {"quick-links", "apm", "namespace", "pod", "logs", "traces", "vault", "iaac"}

StatusMessageLinks(category) ==
    /\ (category.status # "ok") <=> IsSome(category.message)
    /\ IsSome(category.message) <=> (category.links = <<>>)

\* C1: in every category the builders produce, for every application (found
\* or not), list of pods and list of ExternalSecrets: the status is not "ok"
\* exactly when a message is set, exactly when there are no links.
C1_StatusMessageLinks ==
    IsSome(b_out) =>
        /\ {Val(b_out)[i].id : i \in 1..Len(Val(b_out))} = CategoryIds
        /\ \A i \in 1..Len(Val(b_out)) : StatusMessageLinks(Val(b_out)[i])

\* the builders ran on two pods, on ExternalSecrets without a usable key
\* and on an Application whose sources do not parse
C1_Witness ==
    /\ IsSome(b_out)
    /\ Len(b_in.pods) = 2
    /\ Val(b_out)[4].status = "ok"
    /\ Len(Val(b_out)[4].links) = 2
    /\ b_in.external_secrets # <<>>
    /\ Val(b_out)[7].status = "empty"
    /\ IsSome(b_in.argocd_app)
    /\ Val(b_out)[8].status = "error"

\* C10: extract_service_name("taco-backend-prod") = "taco-backend-prod" and
\* extract_service_name("taco-backend-prod-677bfb55b7-942nr") = "taco-backend-prod".
C10_Examples ==
    IsSome(svc_out) =>
        /\ svc_in = TacoBackendProd => Val(svc_out) = TacoBackendProd
        /\ svc_in = TacoBackendProdPod => Val(svc_out) = TacoBackendProd


LinksDone(r) == req[r].kind = "links" /\ req[r].pc = "done"
Status(r) == Val(req[r].response).status
Body(r) == Val(req[r].response).body

\* the handler of r went past the checks of the header
PastValidation(r) ==
    \/ req[r].pc \in {"cache", "generate"}
    \/ req[r].pc = "done" /\ req[r].outcome \in {"cache_hit", "links_generated", "links_generation_failed"}

Validated(r) == req[r].kind = "links" /\ req[r].pc \notin {"idle", "received"}

NoColon(header) == \A i \in 1..Len(header) : header[i] # ":"

\* the text after the first ":" of a header that has one
AfterFirstColon(header) ==
    LET i == CHOOSE k \in 1..Len(header) : header[k] = ":" /\ \A j \in 1..(k - 1) : header[j] # ":"
    IN [j \in 1..(Len(header) - i) |-> header[i + j]]

HeaderRule(r) ==
    IF NoColon(req[r].header) THEN req[r].pc = "done" /\ Status(r) = 400
    ELSE IF AfterFirstColon(req[r].header) # req[r].app_name
    THEN req[r].pc = "done" /\ Status(r) = 400
    ELSE PastValidation(r)

\* C2 as stated: under every configuration, a links request whose header has
\* no ":" gets 400, one whose header names another application after its
\* first ":" gets 400, and one whose header is "<ns>:<app>" with the app of
\* the path goes past validation.
C2_EveryConfiguration == \A r \in Reqs : Validated(r) => HeaderRule(r)

\* C2 amended: the same, when use_mock_data is off.
C2_HeaderValidation == \A r \in Reqs : (~use_mock_data /\ Validated(r)) => HeaderRule(r)

\* one request was rejected for a mismatch, another with a second ":" in
\* its application name is past validation
C2_Witness ==
    /\ ~use_mock_data
    /\ \E r1, r2 \in Reqs :
         /\ LinksDone(r1) /\ req[r1].outcome = "app_name_mismatch"
         /\ req[r2].pc = "cache" /\ req[r2].app_name = <<"a", ":", "b">>

\* C3: a links request rejected for its header has made no cache call and no
\* cluster call when it is rejected, and makes none afterwards.
C3_RejectedTouchesNothing ==
    \A r \in Reqs : (LinksDone(r) /\ Status(r) = 400) => req[r].calls = <<>>

\* a rejected request, and after it a request that did reach the cluster
C3_Witness ==
    \E r1, r2 \in Reqs :
        /\ LinksDone(r1) /\ Status(r1) = 400
        /\ LinksDone(r2) /\ \E i \in 1..Len(req[r2].calls) : req[r2].calls[i].target = "cluster"

\* C4: a validated links request whose lookup hits answers 200 with the
\* cached payload (the response, serialized again, is the stored text) and
\* makes no call but that lookup: no cluster call, no cache write.
C4_HitServesCached ==
    \A r \in Reqs : (LinksDone(r) /\ req[r].outcome = "cache_hit") =>
        /\ Status(r) = 200
        /\ JsonDumps(Body(r)).json = Val(req[r].cached)
        /\ req[r].calls = <<CacheCall("get", CacheKey(req[r].namespace, req[r].app_name))>>

C4_Witness ==
    \E r \in Reqs : LinksDone(r) /\ req[r].outcome = "cache_hit" /\ Status(r) = 200

\* C5: when a validated links request that missed completes with a working
\* cache, the entry under "gluelinks:v1:<namespace>:<app_name>" expires
\* cache_ttl_seconds later and deserializes to the response that was returned.
C5_RoundTrip ==
    [][\A r \in Reqs :
         (req[r].pc = "generate" /\ req'[r].pc = "done" /\ req'[r].faults = <<>>) =>
            \E e \in cache' :
                /\ e.key = CacheKey(req[r].namespace, req[r].app_name)
                /\ e.expires = clock + cache_ttl_seconds
                /\ FromDict(JsonLoads(e.value)).value = Val(req'[r].response).body]_vars

IsAbsence(reply) == reply.kind = "ok" \/ (reply.kind = "ApiException" /\ reply.status = 404)

OnlyAbsence(c) ==
    /\ \A i \in 1..Len(c.apps) : IsAbsence(c.apps[i])
    /\ IsAbsence(c.deployments)
    /\ IsAbsence(c.pods)
    /\ IsAbsence(c.secrets)

RanPipeline(r) ==
    LinksDone(r) /\ req[r].outcome \in {"links_generated", "links_generation_failed"}

\* C7: on a miss, whatever subset of Application, Deployment, Pods and
\* ExternalSecrets is absent, the request answers 200 with a LinksResponse
\* that has all its fields, and every category that is not ok has a message.
C7_AbsenceIsNotAnError ==
    \A r \in Reqs :
        (RanPipeline(r) /\ OnlyAbsence(Cluster(req[r].cluster))) =>
            /\ Status(r) = 200
            /\ DOMAIN Body(r) = {"app_name", "namespace", "service_name", "last_updated",
                                 "categories", "metadata"}
            /\ \A i \in 1..Len(Body(r).categories) : StatusMessageLinks(Body(r).categories[i])

\* C8: when a cluster call of a validated links request fails for a reason
\* other than absence (the connection drops, the API answers 403), the
\* request still answers 200 and every category that is not ok carries a
\* message: the failure degrades categories, never the response.
C8_FailureDegrades ==
    \A r \in Reqs :
        (/\ ~use_mock_data
         /\ RanPipeline(r)
         /\ ~OnlyAbsence(Cluster(req[r].cluster))) =>
            /\ Status(r) = 200
            /\ \A i \in 1..Len(Body(r).categories) : StatusMessageLinks(Body(r).categories[i])

\* C9: readiness answers 200, checks.cache is true exactly when the cache
\* ping succeeds, checks.kubernetes exactly when the cluster ping succeeds,
\* and ready is their conjunction.
C9_ReadinessReflectsPings ==
    \A r \in Reqs : (req[r].kind = "ready" /\ req[r].pc = "done") =>
        /\ Status(r) = 200
        /\ Body(r).checks = Val(req[r].pings)
        /\ Body(r).ready = (Val(req[r].pings).cache /\ Val(req[r].pings).kubernetes)

----------------------------------------------------------------------------
(* extract_service_name over all its inputs *)

ListedSuffix(x) == SuffixReplicaSet(x) \/ SuffixNumeric(x) \/ SuffixShortHash(x)

\* C11: for every input extract_service_name returns; when the pattern does
\* not match the result is the input; otherwise the result is a non-empty
\* prefix of the input and what was removed is nothing or exactly one suffix
\* of the listed forms.
C11_OnlyStripsSuffix ==
    IsSome(svc_out) =>
        LET out == Val(svc_out)
            removed == Drop(svc_in, Len(out))
        IN /\ ~SERVICE_NAME_REGEX(svc_in).matched => out = svc_in
           /\ SERVICE_NAME_REGEX(svc_in).matched =>
                 /\ out # <<>>
                 /\ StartsWith(svc_in, out)
                 /\ removed = <<>> \/ ListedSuffix(removed)

----------------------------------------------------------------------------
(* The repository resolver and the IaaC builder applied to Applications   *)
(* with every short list of sources                                       *)

MaxSources == 2
MaxValueFiles == 2

ValuesSourceNoRevision == [ref |-> "values", repoURL |-> <<"https://github.com/org/other">>]
ValuesSourceNoRepo == [ref |-> "values", targetRevision |-> <<"dev">>]
ChartSource == [repoURL |-> <<"https://charts.example">>, chart |-> <<"app">>]
HelmNoValueFiles == [repoURL |-> <<"https://charts.example">>, helm |-> [releaseName |-> <<"a">>]]
BurritoValues == <<"$values", "/", "apps", "/", "burrito", "/", "base", "/", "values.yaml">>
\* "apps" is the first component and occurs again between slashes
AppsLeadingValues == <<"apps", "/", "x", "/", "apps", "/", "y", "/", "base", "/", "v.yaml">>
\* "/base/" comes before "/apps/"
BaseFirstValues == <<"$values", "/", "base", "/", "apps", "/", "z", "/", "v.yaml">>

RepoValueFiles == {BaseValues, BurritoValues, EnvValues}

RepoSources ==
    {ValuesSource, ValuesSourceNoRevision, ValuesSourceNoRepo, ChartSource, HelmNoValueFiles}
    \cup {HelmSource(files) : files \in SeqsUpTo(RepoValueFiles, MaxValueFiles)}

RepoApps ==
    {[spec |-> [sources |-> ss]] : ss \in SeqsUpTo(RepoSources, MaxSources)}
    \cup {[spec |-> [sources |-> ss]] : ss \in
            { <<ValuesSource, ValuesSourceNoRevision, HelmSource(<<EnvValues, BurritoValues, BaseValues>>)>>,
              <<ValuesSourceNoRevision, ValuesSource, HelmSource(<<BaseValues>>)>>,
              <<ValuesSourceNoRepo, ValuesSource, HelmSource(<<BaseValues>>)>>,
              <<HelmSource(<<EnvValues>>), HelmSource(<<BaseValues>>), ValuesSource>>,
              <<HelmNoValueFiles, HelmSource(<<BurritoValues>>), ValuesSource>>,
              <<ValuesSource, HelmSource(<<AppsLeadingValues>>)>>,
              <<ValuesSource, HelmSource(<<BaseFirstValues>>)>> }}
    \cup {AppPlain, AppWithDestination}

InitRepo ==
    /\ ServicesIdle
    /\ svc_in = <<>>
    /\ svc_out = NoneOpt
    /\ b_in \in [argocd_app : RepoApps]
    /\ b_out = NoneOpt

CallParseGithubRepo ==
    /\ svc_out = NoneOpt
    /\ svc_out' = Some(parse_github_repo_from_argocd_app(b_in.argocd_app))
    /\ UNCHANGED <<use_mock_data, cache, clock, req, running, svc_in, b_in, b_out>>

CallIaacCategory ==
    /\ b_out = NoneOpt
    /\ b_out' = Some(generate_iaac_category(Some(b_in.argocd_app)))
    /\ UNCHANGED <<use_mock_data, cache, clock, req, running, svc_in, svc_out, b_in>>

NextRepo == CallParseGithubRepo \/ CallIaacCategory

SpecRepo == InitRepo /\ [][NextRepo]_vars

SourcesOf(argocd_app) ==
    IF "spec" \in DOMAIN argocd_app /\ "sources" \in DOMAIN argocd_app.spec
    THEN argocd_app.spec.sources ELSE <<>>

RefIsValues(source) == "ref" \in DOMAIN source /\ source.ref = "values"
CarriesValueFiles(source) == "helm" \in DOMAIN source /\ "valueFiles" \in DOMAIN source.helm
UnderAppsAndBase(value_file) == HasSegment(value_file, "apps") /\ HasSegment(value_file, "base")

\* the least index of a sequence whose element satisfies the test, given as
\* the set of indices that satisfy it
Least(S) == CHOOSE i \in S : \A j \in S : i <= j

\* C12: the resolver returns (None, None) when no source has ref "values",
\* when no source is a Helm source with valueFiles, and when no value file
\* has both an /apps/ and a /base/ segment; it never returns a pair with
\* exactly one None.
C12_NoneNone ==
    IsSome(svc_out) =>
        LET sources == SourcesOf(b_in.argocd_app)
            out == Val(svc_out)
            no_values == \A i \in 1..Len(sources) : ~RefIsValues(sources[i])
            no_helm == \A i \in 1..Len(sources) : ~CarriesValueFiles(sources[i])
            no_file == \A i \in 1..Len(sources) : CarriesValueFiles(sources[i]) =>
                          \A k \in 1..Len(sources[i].helm.valueFiles) :
                              ~UnderAppsAndBase(sources[i].helm.valueFiles[k])
        IN /\ (no_values \/ no_helm \/ no_file) => out = NoRepo
           /\ IsNone(out.repo_url) <=> IsNone(out.app_path)

\* the resolver gave up on an Application that has a values source with a
\* repository and a Helm source whose value files are all outside /base/
C12_Witness ==
    /\ IsSome(svc_out)
    /\ Val(svc_out) = NoRepo
    /\ b_in.argocd_app = [spec |-> [sources |-> <<ValuesSource, HelmSource(<<EnvValues, EnvValues>>)>>]]

\* C13: when the resolver succeeds, repo_url is the repoURL of the first
\* source with ref "values", and app_path is "apps/" followed by the
\* component after "apps" in the first value file, of the first Helm source
\* with valueFiles, that has both an /apps/ and a /base/ segment.
C13_FirstValuesFirstFile ==
    (IsSome(svc_out) /\ Val(svc_out) # NoRepo) =>
        LET sources == SourcesOf(b_in.argocd_app)
            out == Val(svc_out)
            v == Least({i \in 1..Len(sources) : RefIsValues(sources[i])})
            h == Least({i \in 1..Len(sources) : CarriesValueFiles(sources[i])})
            files == sources[h].helm.valueFiles
            f == files[Least({k \in 1..Len(files) : UnderAppsAndBase(files[k])})]
            at == Least({i \in 1..Len(f) : f[i] = "apps"})
        IN /\ out.repo_url = Some(sources[v].repoURL)
           /\ out.app_path = Some(<<"apps", "/", f[at + 2]>>)

\* the resolver succeeded with two values sources in the list and with a
\* matching value file that is not the first of its list
C13_Witness ==
    /\ IsSome(svc_out)
    /\ b_in.argocd_app = [spec |-> [sources |->
          <<ValuesSource, ValuesSourceNoRevision, HelmSource(<<EnvValues, BurritoValues, BaseValues>>)>>]]
    /\ Val(svc_out) = [repo_url |-> Some(ValuesSource.repoURL),
                       app_path |-> Some(<<"apps", "/", "burrito">>)]

\* C16: for an Application that was found, the IaaC category is "error" with
\* the unable-to-parse message when the resolver returns (None, None);
\* otherwise it is "ok" with one link, {repo_url}/tree/{branch}/{app_path},
\* the branch being the targetRevision of the first values source, "main"
\* when that source has none.
C16_IaacLink ==
    IsSome(b_out) =>
        LET app == b_in.argocd_app
            sources == SourcesOf(app)
            parsed == parse_github_repo_from_argocd_app(app)
            cat == Val(b_out)
            v == Least({i \in 1..Len(sources) : RefIsValues(sources[i])})
            branch == IF "targetRevision" \in DOMAIN sources[v]
                      THEN sources[v].targetRevision ELSE <<"main">>
        IN IF parsed = NoRepo
           THEN /\ cat.status = "error"
                /\ cat.message = Some("Unable to parse deployment configuration from ArgoCD manifest")
                /\ cat.links = <<>>
           ELSE /\ cat.status = "ok"
                /\ Len(cat.links) = 1
                /\ cat.links[1].url = Val(parsed.repo_url) \o <<"/tree/">> \o branch
                                       \o <<"/">> \o Val(parsed.app_path)

\* the builder linked to the branch "prod" of the values source
C16_Witness ==
    /\ IsSome(b_out)
    /\ b_in.argocd_app = [spec |-> [sources |-> <<HelmSource(<<BaseValues>>), ValuesSource>>]]
    /\ Val(b_out).status = "ok"
    /\ Val(b_out).links[1].url =
          <<"https://github.com/org/cfg", "/tree/", "prod", "/", "apps", "/", "taco">>

----------------------------------------------------------------------------
(* The Vault Secrets category *)

\* the keys dataFrom[].extract.key of one ExternalSecret, in order
ExtractKeys(secret) ==
    IF "spec" \in DOMAIN secret /\ "dataFrom" \in DOMAIN secret.spec
    THEN [i \in 1..Len(secret.spec.dataFrom) |-> secret.spec.dataFrom[i].extract.key]
    ELSE <<>>

\* of a list of keys, the remainders after the first "/" of those that have one
PathsOf(keys) ==
    Flatten([i \in 1..Len(keys) |->
                IF \E j \in 1..Len(keys[i]) : keys[i][j] = "/"
                THEN << Drop(keys[i], Least({j \in 1..Len(keys[i]) : keys[i][j] = "/"})) >>
                ELSE <<>>])

ExpectedPaths(external_secrets) ==
    PathsOf(Flatten([i \in 1..Len(external_secrets) |-> ExtractKeys(external_secrets[i])]))

\* C14: the Vault Secrets category is "empty" when there is no ExternalSecret
\* or none of their keys has a "/"; otherwise it is "ok" with one link per
\* key that has a "/", in input order, its path being the key after its
\* first "/".
C14_VaultPaths ==
    IsSome(b_out) =>
        LET cat == Val(b_out)[7]
            paths == ExpectedPaths(b_in.external_secrets)
        IN /\ cat.id = "vault"
           /\ IF paths = <<>>
              THEN cat.status = "empty" /\ cat.links = <<>>
              ELSE /\ cat.status = "ok"
                   /\ Len(cat.links) = Len(paths)
                   /\ \A i \in 1..Len(paths) :
                         /\ cat.links[i].label = paths[i]
                         /\ cat.links[i].url =
                               vault_base_url \o <<"/ui/vault/secrets/secret/show/">> \o paths[i]

\* the builder ran on two ExternalSecrets, one with a key without "/" and a
\* key with two, the other with the key "secret/postgres-details"
C14_Witness ==
    /\ IsSome(b_out)
    /\ Len(b_in.external_secrets) = 2
    /\ ExtractKeys(b_in.external_secrets[1]) = << <<"pg">>, <<"kv", "/", "x", "/", "y">> >>
    /\ ExtractKeys(b_in.external_secrets[2]) = << <<"secret", "/", "postgres-details">>, <<"secret", "/">> >>
    /\ Val(b_out)[7].status = "ok"
    /\ Val(b_out)[7].links[1].label = <<"x", "/", "y">>
    /\ Val(b_out)[7].links[2].label = <<"postgres-details">>
    /\ Len(Val(b_out)[7].links) = 3

----------------------------------------------------------------------------
(* The list of categories *)

CategoryOrder == <<"quick-links", "apm", "namespace", "pod", "logs", "traces", "vault", "iaac">>

\* C17: the list of categories the pipeline builds for its LinksResponse has
\* exactly eight entries, in the order quick-links, apm, namespace, pod, logs,
\* traces, vault, iaac, whatever was found upstream; apm, namespace, logs and
\* traces have status "ok".
C17_EightInOrder ==
    IsSome(b_out) =>
        /\ [i \in 1..Len(Val(b_out)) |-> Val(b_out)[i].id] = CategoryOrder
        /\ \A i \in {2, 3, 5, 6} : Val(b_out)[i].status = "ok"

\* the list was built with nothing found upstream: no Application, no pod,
\* no ExternalSecret
C17_Witness ==
    /\ IsSome(b_out)
    /\ b_in.argocd_app = NoneOpt
    /\ b_in.pods = <<>>
    /\ b_in.external_secrets = <<>>
    /\ Val(b_out)[4].status = "empty"
    /\ Val(b_out)[7].status = "empty"
    /\ Val(b_out)[8].status = "error"

----------------------------------------------------------------------------
(* The pipeline of a links request: Application lookup and pod listing *)

\* every probe for the Application was answered 404 or another API error
LookupFailsEverywhere(c) ==
    \A i \in 1..Len(c.apps) : c.apps[i].kind = "ApiException"

\* C15: when the Application lookup fails in every candidate namespace (404
\* or another API error), the links request still answers with a response
\* whose IaaC category is "error" with the message "ArgoCD application not
\* found" and no links, and whose metadata.resources.argocd_app is false.
C15_LookupFailureIsIaacError ==
    \A r \in Reqs :
        (RanPipeline(r) /\ LookupFailsEverywhere(Cluster(req[r].cluster))) =>
            /\ Status(r) = 200
            /\ Body(r).categories[8].id = "iaac"
            /\ Body(r).categories[8].status = "error"
            /\ Body(r).categories[8].message = Some("ArgoCD application not found")
            /\ Body(r).categories[8].links = <<>>
            /\ Body(r).metadata.resources.argocd_app = FALSE

\* the Deployment the pipeline of request r finds, None when it finds none
\* or when a call before it raises
DeploymentFound(r) ==
    LET c == Cluster(req[r].cluster)
        a == get_argocd_application(req[r].app_name, req[r].namespace, c.apps)
        d == get_deployment(req[r].app_name, TargetNamespace(a.value, req[r].namespace),
                            c.deployments)
    IN IF IsSome(a.raised) \/ IsSome(d.raised) THEN NoneOpt ELSE d.value

\* C18: when the pipeline finds a Deployment it lists the pods of the target
\* namespace; with N >= 1 pods listed the Pod category is "ok" with N links,
\* one per pod in list order, with none listed it is "empty" with the message
\* "No pods currently running"; the request answers 200.
C18_PodsListed ==
    \A r \in Reqs :
        (RanPipeline(r) /\ IsSome(DeploymentFound(r))
         /\ Cluster(req[r].cluster).pods.kind = "ok") =>
            LET pods == Cluster(req[r].cluster).pods.value
            IN /\ \E i \in 1..Len(req[r].calls) : req[r].calls[i].api = "pods"
               /\ Status(r) = 200
               /\ Body(r).categories[4].id = "pod"
               /\ IF pods = <<>>
                  THEN /\ Body(r).categories[4].status = "empty"
                       /\ Body(r).categories[4].message = Some("No pods currently running")
                  ELSE /\ Body(r).categories[4].status = "ok"
                       /\ Len(Body(r).categories[4].links) = Len(pods)
                       /\ \A i \in 1..Len(pods) :
                             Body(r).categories[4].links[i].label = pods[i].metadata.name

----------------------------------------------------------------------------
(* The lookups of K8sClient called directly, on every reply of the API *)

MaxDeployments == 2

\* what the API answers to the probe of one namespace
ProbeOutcomes == {"found", "404", "403", "drop"}

ApplicationIn(name, namespace) == [metadata |-> [name |-> name, namespace |-> namespace]]

ProbeReply(outcome, name, namespace) ==
    CASE outcome = "found" -> ApiOk(ApplicationIn(name, namespace))
      [] outcome = "404" -> NotFound
      [] outcome = "403" -> Forbidden
      [] outcome = "drop" -> TransportError

ClientNames == {<<"a">>, <<"b", "a">>}
ClientNamespaces == {<<"n">>, <<"n", "n">>}

ApplicationCallInputs ==
    {[method |-> "get_argocd_application", name |-> name, namespace |-> namespace,
      outcomes |-> outcomes] :
        name \in {<<"a">>}, namespace \in ClientNamespaces,
        outcomes \in [1..3 -> ProbeOutcomes]}

ClientDeployments ==
    { DeploymentOf(<<"a">>, <<"n">>, <<"x">>),
      DeploymentOf(<<"a">>, <<"n">>, <<"y">>),
      DeploymentOf(<<"a">>, <<"n", "n">>, <<"x">>),
      DeploymentOf(<<"b", "a">>, <<"n">>, <<"x">>),
      DeploymentBare(<<"w">>),
      [metadata |-> [name |-> <<"v">>, annotations |-> [owner |-> <<"a">>]]] }

DeploymentCallInputs ==
    {[method |-> "get_deployment", name |-> name, namespace |-> namespace, items |-> items] :
        name \in ClientNames, namespace \in ClientNamespaces,
        items \in SeqsUpTo(ClientDeployments, MaxDeployments)}

ClientSecrets ==
    { SecretOf(<<"a">>, <<"n">>, <<"s">>, << <<"secret", "/", "pg">> >>),
      SecretOf(<<"a">>, <<"n">>, <<"t">>, <<>>),
      SecretOf(<<"a">>, <<"n", "n">>, <<"s">>, <<>>),
      SecretOf(<<"b", "a">>, <<"n">>, <<"s">>, <<>>),
      [metadata |-> [name |-> <<"u">>]] }

\* crd says whether the cluster knows the ExternalSecret resource type
SecretCallInputs ==
    {[method |-> "get_external_secrets", name |-> name, namespace |-> namespace,
      crd |-> crd, items |-> items] :
        name \in ClientNames, namespace \in ClientNamespaces, crd \in BOOLEAN,
        items \in SeqsUpTo(ClientSecrets, MaxSecrets)}

InitClient ==
    /\ ServicesIdle
    /\ \/ svc_in \in ApplicationCallInputs
       \/ svc_in \in DeploymentCallInputs
       \/ svc_in \in SecretCallInputs
    /\ svc_out = NoneOpt
    /\ b_in = <<>>
    /\ b_out = NoneOpt

CallGetArgocdApplication ==
    /\ svc_out = NoneOpt
    /\ svc_in.method = "get_argocd_application"
    /\ svc_out' = Some(get_argocd_application(svc_in.name, svc_in.namespace,
                          [i \in 1..3 |-> ProbeReply(svc_in.outcomes[i], svc_in.name,
                                              ArgocdNamespaces(svc_in.namespace)[i])]))
    /\ UNCHANGED <<use_mock_data, cache, clock, req, running, svc_in, b_in, b_out>>

CallGetDeployment ==
    /\ svc_out = NoneOpt
    /\ svc_in.method = "get_deployment"
    /\ svc_out' = Some(get_deployment(svc_in.name, svc_in.namespace, ApiOk(svc_in.items)))
    /\ UNCHANGED <<use_mock_data, cache, clock, req, running, svc_in, b_in, b_out>>

CallGetExternalSecrets ==
    /\ svc_out = NoneOpt
    /\ svc_in.method = "get_external_secrets"
    /\ svc_out' = Some(get_external_secrets(svc_in.name, svc_in.namespace,
                          IF svc_in.crd THEN ApiOk(svc_in.items) ELSE NotFound))
    /\ UNCHANGED <<use_mock_data, cache, clock, req, running, svc_in, b_in, b_out>>

NextClient == CallGetArgocdApplication \/ CallGetDeployment \/ CallGetExternalSecrets

SpecClient == InitClient /\ [][NextClient]_vars

CandidateNamespaces(namespace) == << <<"glueops-core">>, <<"argocd">>, namespace >>

\* C19: get_argocd_application probes glueops-core, argocd and the caller's
\* namespace in that order and returns the Application of the first
\* namespace whose lookup succeeds; a 404 or any other failure of one probe
\* does not stop the later probes; when no namespace has the Application it
\* returns None; it never raises.
C19_ProbesInOrder ==
    (IsSome(svc_out) /\ svc_in.method = "get_argocd_application") =>
        LET out == Val(svc_out)
            found == {i \in 1..3 : svc_in.outcomes[i] = "found"}
        IN /\ IsNone(out.raised)
           /\ IF found = {} THEN out.value = NoneOpt
              ELSE out.value = Some(ApplicationIn(svc_in.name,
                                        CandidateNamespaces(svc_in.namespace)[Least(found)]))

\* the application and the namespace a tracking id names: the text before
\* ":apps/Deployment:" and the text between it and the next "/"
TrackedApp(id) == Take(id, IndexOf(id, ":apps/Deployment:") - 1)
TrackedNamespace(id) ==
    LET rest == Drop(id, IndexOf(id, ":apps/Deployment:"))
    IN Take(rest, IndexOf(rest, "/") - 1)

IsTrackedBy(deployment, name, namespace) ==
    /\ "annotations" \in DOMAIN deployment.metadata
    /\ TrackingKey \in DOMAIN deployment.metadata.annotations
    /\ LET id == deployment.metadata.annotations[TrackingKey]
       IN /\ IndexOf(id, ":apps/Deployment:") # 0
          /\ TrackedApp(id) = name
          /\ TrackedNamespace(id) = namespace

\* C20: get_deployment returns the first Deployment of the list whose
\* tracking id is "<app_name>:apps/Deployment:<namespace>/...", and None when
\* the list has none, Deployments without annotations included; it never
\* returns a Deployment tracked by another application or another namespace.
C20_TrackedDeployment ==
    (IsSome(svc_out) /\ svc_in.method = "get_deployment") =>
        LET out == Val(svc_out)
            items == svc_in.items
            hits == {i \in 1..Len(items) : IsTrackedBy(items[i], svc_in.name, svc_in.namespace)}
        IN /\ IsNone(out.raised)
           /\ IF hits = {} THEN out.value = NoneOpt
              ELSE out.value = Some(items[Least(hits)])

\* get_deployment passed over a Deployment of the same application in
\* another namespace and returned the one behind it
C20_Witness ==
    /\ IsSome(svc_out)
    /\ svc_in.method = "get_deployment"
    /\ svc_in.name = <<"a">>
    /\ svc_in.namespace = <<"n">>
    /\ svc_in.items = <<DeploymentOf(<<"a">>, <<"n", "n">>, <<"x">>), DeploymentOf(<<"a">>, <<"n">>, <<"y">>)>>
    /\ Val(svc_out).value = Some(DeploymentOf(<<"a">>, <<"n">>, <<"y">>))

----------------------------------------------------------------------------
(* get_external_secrets called directly *)

SecretMarker == ":external-secrets.io/ExternalSecret:"

\* the ExternalSecret is tracked by the application in the namespace: its
\* tracking id reads "<name>:external-secrets.io/ExternalSecret:<namespace>/..."
IsSecretTrackedBy(secret, name, namespace) ==
    /\ "annotations" \in DOMAIN secret.metadata
    /\ TrackingKey \in DOMAIN secret.metadata.annotations
    /\ LET id == secret.metadata.annotations[TrackingKey]
           at == IndexOf(id, SecretMarker)
           rest == Drop(id, at)
       IN /\ at # 0
          /\ Take(id, at - 1) = name
          /\ IndexOf(rest, "/") # 0
          /\ Take(rest, IndexOf(rest, "/") - 1) = namespace

\* C21: get_external_secrets returns exactly the ExternalSecrets of the list
\* that are tracked by the application in the namespace, in list order; it
\* returns the empty list, without raising, when the cluster does not know
\* the resource type (404) and when none matches.
C21_TrackedSecrets ==
    (IsSome(svc_out) /\ svc_in.method = "get_external_secrets") =>
        LET out == Val(svc_out)
            tracked(s) == IsSecretTrackedBy(s, svc_in.name, svc_in.namespace)
        IN /\ IsNone(out.raised)
           /\ out.value = (IF svc_in.crd THEN SelectSeq(svc_in.items, tracked) ELSE <<>>)

\* get_external_secrets returned both ExternalSecrets of the application, in
\* list order
C21_Witness ==
    /\ IsSome(svc_out)
    /\ svc_in.method = "get_external_secrets"
    /\ svc_in.crd
    /\ Len(svc_in.items) = 2
    /\ svc_in.items[1] # svc_in.items[2]
    /\ Val(svc_out).value = svc_in.items

----------------------------------------------------------------------------
(* Failures of a links request as the client sees them *)

GenericDetails ==
    { <<"Failed to generate links. Check logs for details.">>, <<"Internal server error">> }

\* the exception the pipeline of a finished request raised, None when it
\* raised none
PipelineException(r) ==
    generate_links(req[r].app_name, req[r].namespace, Cluster(req[r].cluster), 0, <<>>).raised

\* C22: a failure during the handling of a links request answers 500 with a
\* body that is one fixed generic message; two runs of the same request that
\* fail, whatever exception each fails with, get the same status and body.
C22_FailuresLookAlike ==
    /\ \A r \in Reqs :
          (LinksDone(r) /\ Status(r) = 500) =>
              /\ DOMAIN Body(r) = {"detail"}
              /\ Body(r).detail \in GenericDetails
    /\ \A r1, r2 \in Reqs :
          (/\ LinksDone(r1) /\ LinksDone(r2)
           /\ req[r1].app_name = req[r2].app_name
           /\ req[r1].header = req[r2].header
           /\ Status(r1) = 500 /\ Status(r2) = 500)
          => Val(req[r1].response) = Val(req[r2].response)

\* two runs of the same request failed in the pipeline with exceptions of
\* different types
C22_Witness ==
    \E r1, r2 \in Reqs :
        /\ RanPipeline(r1) /\ RanPipeline(r2)
        /\ req[r1].app_name = req[r2].app_name
        /\ req[r1].header = req[r2].header
        /\ Status(r1) = 500 /\ Status(r2) = 500
        /\ PipelineException(r1) = Some("ValidationError")
        /\ PipelineException(r2) = Some("AttributeError")

----------------------------------------------------------------------------
(* The chain of cluster calls of one links request *)

ClusterCalls(r) == SelectSeq(req[r].calls, LAMBDA call : call.target = "cluster")

NoDrop(c) ==
    /\ \A i \in 1..Len(c.apps) : c.apps[i].kind # "Exception"
    /\ c.deployments.kind # "Exception"
    /\ c.pods.kind # "Exception"
    /\ c.secrets.kind # "Exception"

\* the number of namespaces probed for the Application: up to the first
\* that has it, all three when none has
ProbesExpected(c) ==
    IF \E i \in 1..3 : c.apps[i].kind = "ok"
    THEN Least({i \in 1..3 : c.apps[i].kind = "ok"})
    ELSE 3

\* C23: the cluster calls of a links request that misses the cache are, in
\* this order, the probes for the Application (at most three, in the order
\* of the candidate namespaces), the Deployment list, the Pods list only
\* when a Deployment was found, and the ExternalSecrets list whether or not
\* the Application or the Deployment was found.
C23_CallChain ==
    \A r \in Reqs :
        (RanPipeline(r) /\ NoDrop(Cluster(req[r].cluster))) =>
            LET c == Cluster(req[r].cluster)
                k == ProbesExpected(c)
                apis == [i \in 1..Len(ClusterCalls(r)) |-> ClusterCalls(r)[i].api]
            IN /\ apis = [i \in 1..k |-> "applications"] \o <<"deployments">>
                         \o (IF IsSome(DeploymentFound(r)) THEN <<"pods">> ELSE <<>>)
                         \o <<"externalsecrets">>
               /\ \A i \in 1..k :
                     ClusterCalls(r)[i].arg = CandidateNamespaces(req[r].namespace)[i]

----------------------------------------------------------------------------
(* Requests in progress at the same time *)

\* a links request that has arrived and whose handler has not returned: it
\* is before or between its calls to the cache and the cluster
InProgress(r) == req[r].pc \in {"received", "cache", "generate"}

NextSlot(r) == req[r].pc = "idle" /\ \A q \in Reqs : q < r => req[q].pc # "idle"

\* C24: while a links request is in progress, waiting on the cache or the
\* cluster, the process can start and complete another request: a health
\* request, or another links request.
C24_OthersProceed ==
    \A r1, r2 \in Reqs :
        (InProgress(r1) /\ NextSlot(r2)) =>
            /\ ENABLED health_check(r2)
            /\ ENABLED Receive(r2)

----------------------------------------------------------------------------
(* What changes the cache *)

\* the step is the expiry of entries: time has passed and exactly the
\* entries whose time to live is over are gone
ExpiryStep ==
    /\ clock' > clock
    /\ cache' = {e \in cache : clock' < e.expires}

\* the step is the set of a request that missed: one entry under the key of
\* the request replaces what was under that key, with a full time to live
SetAfterMissStep ==
    \E r \in Reqs :
        /\ req[r].pc = "generate"
        /\ req'[r].outcome = "links_generated"
        /\ \E e \in cache' :
             /\ e.key = CacheKey(req[r].namespace, req[r].app_name)
             /\ e.expires = clock + cache_ttl_seconds
             /\ cache' = {x \in cache : x.key # e.key} \cup {e}

IsRejected(r) == req[r].outcome \in {"invalid_header_format", "app_name_mismatch"}

\* C25: the cache changes only by the set of a request that missed and by
\* the expiry of entries: a step that answers a hit leaves it as it was, time
\* to live included, a step that rejects a request with 400 leaves it as it
\* was, and no step removes an entry that has not expired.
C25_CacheFrame ==
    [][/\ cache' # cache => (ExpiryStep \/ SetAfterMissStep)
       /\ \A r \in Reqs :
            (req[r].pc # "done" /\ req'[r].pc = "done"
             /\ req'[r].outcome \in {"cache_hit", "invalid_header_format",
                                     "app_name_mismatch"}) => cache' = cache
       /\ \A e \in cache : (e \notin cache' /\ clock' < e.expires) => SetAfterMissStep
      ]_vars

\* a hit and a rejected request have been answered and the entry that was
\* hit is in the cache with the time to live it had
C25_Witness ==
    \E r1, r2 \in Reqs :
        /\ LinksDone(r1) /\ req[r1].outcome = "cache_hit"
        /\ LinksDone(r2) /\ IsRejected(r2)
        /\ \E e \in cache :
             /\ e.key = CacheKey(req[r1].namespace, req[r1].app_name)
             /\ e.expires = (0 - TickSeconds) + cache_ttl_seconds

----------------------------------------------------------------------------
(* Who wrote an entry of the cache *)

KeyOf(r) == CacheKey(req[r].namespace, req[r].app_name)

\* the entry is what some request for its key generated and serialized
WrittenBy(e, r) ==
    /\ LinksDone(r) /\ req[r].outcome = "links_generated"
    /\ e.key = KeyOf(r)
    /\ \E now \in 0..MaxClock :
         e.value = JsonDumps(generate_links(req[r].app_name, req[r].namespace,
                                            Cluster(req[r].cluster), now, <<>>).value)

\* C26: an entry of the cache is the serialized response that some request
\* for its key generated (or was there when the process started), and every
\* request that missed and ran the pipeline wrote its response under its key
\* (there is no single flight), so that after it, unless the write failed or
\* the entry expired, the cache holds an entry under that key.
C26_EveryMissWrites ==
    /\ \A e \in cache : e \in UNION InitialStores \/ \E r \in Reqs : WrittenBy(e, r)
    /\ \A r \in Reqs :
         RanPipeline(r) =>
            \E i \in 1..Len(req[r].calls) : req[r].calls[i] = CacheCall("set", KeyOf(r))

----------------------------------------------------------------------------
(* One cache entry per (namespace, app_name) *)

PairOf(r) == <<req[r].namespace, req[r].app_name>>

\* the keys of the cache calls r made
KeysUsed(r) ==
    {req[r].calls[i].arg : i \in {j \in 1..Len(req[r].calls) : req[r].calls[j].target = "cache"}}

\* C27: the namespace parsed from a validated header holds no ":", two
\* validated requests with different (namespace, app_name) pairs use no
\* cache key in common, and a request answered from the cache gets a payload
\* that was stored for its own pair (the entries of the model carry the pair
\* they were stored for).
C27_KeyInjective ==
    /\ \A r \in Reqs : PastValidation(r) => NoColon(req[r].namespace)
    /\ \A r1, r2 \in Reqs :
         (PastValidation(r1) /\ PastValidation(r2) /\ PairOf(r1) # PairOf(r2)) =>
            KeysUsed(r1) \cap KeysUsed(r2) = {}
    /\ \A r \in Reqs :
         (LinksDone(r) /\ req[r].outcome = "cache_hit") =>
            <<Val(req[r].cached).namespace, Val(req[r].cached).app_name>> = PairOf(r)

\* two requests for different pairs have looked the cache up, one of them
\* for an app_name that holds a ":", and one was answered from the cache
C27_Witness ==
    \E r1, r2 \in Reqs :
        /\ LinksDone(r1) /\ req[r1].outcome = "cache_hit"
        /\ PastValidation(r2) /\ KeysUsed(r2) # {}
        /\ ~NoColon(req[r2].app_name)
        /\ PairOf(r1) # PairOf(r2)

----------------------------------------------------------------------------
(* The namespace the pipeline works in *)

\* spec.destination.namespace of the Application r found, else the
\* namespace of its header
TargetOf(r) ==
    TargetNamespace(get_argocd_application(req[r].app_name, req[r].namespace,
                                           Cluster(req[r].cluster).apps).value,
                    req[r].namespace)

CallsOf(r, api) == {i \in 1..Len(ClusterCalls(r)) : ClusterCalls(r)[i].api = api}

\* C28: a request that ran the pipeline looked Deployment, Pods and
\* ExternalSecrets up in the destination namespace of the Application it
\* found (the namespace of its header when none was found or it names
\* none), its response carries that namespace and builds the Namespace and
\* Pod links from it, and its cache key carries the namespace of the header.
C28_TargetNamespace ==
    \A r \in Reqs :
        (RanPipeline(r) /\ NoDrop(Cluster(req[r].cluster))) =>
            /\ \A i \in 1..Len(ClusterCalls(r)) :
                 ClusterCalls(r)[i].api # "applications" => ClusterCalls(r)[i].arg = TargetOf(r)
            /\ CallsOf(r, "deployments") # {}
            /\ CallsOf(r, "externalsecrets") # {}
            /\ req[r].calls[1] = CacheCall("get", CacheKey(req[r].namespace, req[r].app_name))
            /\ Status(r) = 200
            /\ Body(r).namespace = TargetOf(r)
            /\ Body(r).categories[3] = generate_namespace_category(TargetOf(r))

----------------------------------------------------------------------------
(* The service name of a response *)

====
